---- MODULE Spec2Model ----
(***************************************************************************)
(* Model of the Solar Roots worker (src/src/index.ts): the request router  *)
(* `fetch`, the handlers handleSubscribe, handleConfirmation,              *)
(* handleSubscriptionCheck and handleProfile, the two D1 tables, the       *)
(* statements each request sends to the store and the confirmation emails  *)
(* handed to ctx.waitUntil.                                                *)
(***************************************************************************)
EXTENDS Integers, Sequences, FiniteSets, TLC

VARIABLES
    subscriptions,  \* table subscriptions: normalized email -> row
    profiles,       \* table profiles: email -> row
    schema,         \* the tables of env.DB: table name -> its columns
    env,            \* the bindings fetch is called with
    inflight,       \* the requests suspended at an await: request -> its locals
    waitUntil,      \* promises the most recent request handed to ctx.waitUntil
    operations,     \* statements the most recent request sent to env.DB
    clock,          \* the value new Date() returns
    last            \* the response to the most recent request

vars == <<subscriptions, profiles, schema, env, inflight, waitUntil, operations, clock, last>>

----------------------------------------------------------------------------
(* Bounds *)

MaxClock == 1

----------------------------------------------------------------------------
(* Values *)

NULL == "NULL"
NULL_TIME == -1

\* crypto.randomUUID() draws from these
Tokens == {"t1", "t2"}

\* the token query parameter of GET /confirm; "" is the missing parameter
TokenParams == Tokens \cup {""}

\* strings are sequences of one-character strings
RawEmails ==
    { <<"a", "@", "b", ".", "c">>,
      <<"A", "@", "b", ".", "c">>,
      <<" ", "a", "@", "b", ".", "c">>,
      <<"x", "@", "y", ".", "z">>,
      <<"a", "b">>,
      <<" ">>,
      <<>> }

\* the emails POST /api/profile is called with
ProfileEmails == RawEmails \ { <<"x", "@", "y", ".", "z">> }

RawNames == { <<>>, <<"n">>, <<" ", "m">> }
RawBios == { <<" ">>, <<"b", " ">> }

NoPassword == "undefined"
Passwords == {"pw"}

\* the columns of CREATE TABLE IF NOT EXISTS subscriptions and profiles
SubscriptionColumns ==
    {"email", "created_at", "updated_at", "confirmed", "confirmation_token",
     "token_created_at"}

ProfileColumns == {"id", "email", "name", "bio", "created_at", "updated_at"}

\* the columns a subscriptions table may lack
LegacyColumns == SubscriptionColumns \ {"email"}

\* the index of the statement of a request at which env.DB throws
StoreFaults == 1..4

\* SHA-256 in hex (first digits)
sha256Hex(value) ==
    CASE value = "pw" -> "30c952fa"
      [] value = "wrong" -> "8810ad58"
      [] OTHER -> "e3b0c442"

\* the passwords POST /api/login and POST /api/admin/login are called with
LoginPasswords == Passwords \cup {"wrong"}

\* the admin bindings of env: "" and <<>> are a binding that is not set
AdminEnv(email, password, hash) ==
    [ADMIN_EMAIL |-> email, ADMIN_PASSWORD |-> password, ADMIN_PASSWORD_HASH |-> hash,
     SENDGRID_API_KEY |-> ""]

NoAdmin == AdminEnv(<<>>, "", "")

\* env with the SendGrid credential; "" is the binding that is not set
SendGridEnv(key) == [NoAdmin EXCEPT !.SENDGRID_API_KEY = key]

SendGridEnvs == { SendGridEnv(key) : key \in {"", "SG.key"} }

AdminEnvs ==
    { AdminEnv(e, p, h) :
        e \in { <<>>, <<"a", "@", "b", ".", "c">> },
        p \in {"", "pw"},
        h \in {"", sha256Hex("pw")} }

----------------------------------------------------------------------------
(* String functions *)

isSpace(c) == c = " "

toLowerCaseChar(c) ==
    CASE c = "A" -> "a"
      [] c = "B" -> "b"
      [] c = "X" -> "x"
      [] OTHER -> c

toLowerCase(s) == [i \in 1..Len(s) |-> toLowerCaseChar(s[i])]

RECURSIVE trimStart(_)
trimStart(s) ==
    IF s = <<>> THEN <<>>
    ELSE IF isSpace(Head(s)) THEN trimStart(Tail(s)) ELSE s

RECURSIVE trimEnd(_)
trimEnd(s) ==
    IF s = <<>> THEN <<>>
    ELSE IF isSpace(s[Len(s)]) THEN trimEnd(SubSeq(s, 1, Len(s) - 1)) ELSE s

trim(s) == trimEnd(trimStart(s))

\* [^\s@]+ on s[from..to]
isLocalRun(s, from, to) ==
    /\ from <= to
    /\ \A i \in from..to : ~isSpace(s[i]) /\ s[i] # "@"

\* /^[^\s@]+@[^\s@]+\.[^\s@]+$/.test(email)
emailPattern(email) ==
    \E i \in 1..Len(email) : \E j \in 1..Len(email) :
        /\ email[i] = "@"
        /\ email[j] = "."
        /\ isLocalRun(email, 1, i - 1)
        /\ isLocalRun(email, i + 1, j - 1)
        /\ isLocalRun(email, j + 1, Len(email))

\* the pattern's verdict on the emails of the requests, computed once
testedEmails == [email \in RawEmails |-> emailPattern(email)]

isValidEmail(email) == testedEmails[email]

\* email.trim().toLowerCase() of the emails of the requests, computed once
normalizedEmails == [email \in RawEmails |-> toLowerCase(trim(email))]

normalize(email) == normalizedEmails[email]

\* URLSearchParams serialisation of one value
encodeChar(c) ==
    CASE c = "@" -> <<"%", "4", "0">>
      [] c = " " -> <<"+">>
      [] OTHER -> <<c>>

RECURSIVE encodeParam(_)
encodeParam(s) ==
    IF s = <<>> THEN <<>> ELSE encodeChar(Head(s)) \o encodeParam(Tail(s))

\* URLSearchParams.get: the decoded value
RECURSIVE decodeParam(_)
decodeParam(s) ==
    IF s = <<>> THEN <<>>
    ELSE IF Len(s) >= 3 /\ SubSeq(s, 1, 3) = <<"%", "4", "0">>
         THEN <<"@">> \o decodeParam(SubSeq(s, 4, Len(s)))
    ELSE IF Head(s) = "+" THEN <<" ">> \o decodeParam(Tail(s))
    ELSE <<Head(s)>> \o decodeParam(Tail(s))

buildConfirmationLink(email, token) ==
    [path |-> "/confirm", token |-> token, email |-> encodeParam(email)]

----------------------------------------------------------------------------
(* Requests *)

\* JSON bodies of POST /api/subscribe and POST /api/check
EmailBodies ==
    { [kind |-> "array", hasEmail |-> FALSE, email |-> <<>>],
      [kind |-> "object", hasEmail |-> FALSE, email |-> <<>>] }
    \cup { [kind |-> "object", hasEmail |-> TRUE, email |-> r] : r \in RawEmails }

\* JSON bodies of POST /api/profile: a@b.c with each valid name, with and
\* without a password, one body for every other email, and a@b.c with each
\* name and bio
ProfileBody(kind, email, name, bio, password) ==
    [kind |-> kind, hasEmail |-> kind = "object", email |-> email,
     name |-> name, bio |-> bio, password |-> password]

ProfileBodies ==
    { ProfileBody("array", <<>>, <<>>, <<>>, NoPassword) }
    \cup { ProfileBody("object", <<"a", "@", "b", ".", "c">>, n, <<"b", " ">>, p) :
            n \in RawNames \ {<<>>},
            p \in Passwords \cup {NoPassword} }
    \cup { ProfileBody("object", r, <<"n">>, <<"b", " ">>, "pw") :
            r \in {e \in ProfileEmails : isValidEmail(normalize(e))} }
    \cup { ProfileBody("object", r, <<"n">>, <<"b", " ">>, "pw") :
            r \in {e \in ProfileEmails : ~isValidEmail(normalize(e))} }
    \cup { ProfileBody("object", <<"a", "@", "b", ".", "c">>, n, b, "pw") :
            n \in RawNames, b \in RawBios }

\* requests as fetch receives them (OPTIONS is answered before routing)
\* /confirm: every token with every email that can have a row, one token with
\* every other email, one link without a token and one POST
ConfirmRequests ==
    { [method |-> "GET", token |-> t, email |-> e] :
        t \in Tokens, e \in {r \in RawEmails : isValidEmail(normalize(r))} }
    \cup { [method |-> "GET", token |-> "t1", email |-> e] : e \in RawEmails }
    \cup { [method |-> "GET", token |-> "", email |-> <<"a", "@", "b", ".", "c">>] }
    \cup { [method |-> "POST", token |-> "t1", email |-> <<"a", "@", "b", ".", "c">>] }

EmailRequests ==
    { [method |-> "POST", body |-> b] : b \in EmailBodies }
    \cup { [method |-> "GET", body |-> b] : b \in {c \in EmailBodies : c.kind = "array"} }

ProfileRequests ==
    { [method |-> "POST", body |-> b] : b \in ProfileBodies }
    \cup { [method |-> "GET", body |-> b] : b \in {c \in ProfileBodies : c.kind = "array"} }

\* JSON bodies {email, password} of POST /api/login and POST /api/admin/login
LoginRequests ==
    { [email |-> e, password |-> p] :
        e \in { <<"a", "@", "b", ".", "c">>, <<"x", "@", "y", ".", "z">> },
        p \in LoginPasswords }

\* parseJson returns null unless the body is a JSON object
parseJson(body) == body.kind = "object"

----------------------------------------------------------------------------
(* Responses *)

\* headers are sets of "name: value" lines
JSON_HEADERS == {"content-type: application/json"}

HTML_HEADERS == {"content-type: text/html; charset=utf-8"}

CORS_HEADERS ==
    {"access-control-allow-origin: *",
     "access-control-allow-methods: POST,OPTIONS",
     "access-control-allow-headers: content-type"}

\* the Allow header of the 405 of /confirm and of the JSON routes
AllowGet == {"Allow: GET"}
AllowPost == {"Allow: POST,OPTIONS"}

NoHeaders == {}

Response(status, body, headers) ==
    [status |-> status, body |-> body, headers |-> headers]

\* { ...JSON_HEADERS, ...CORS_HEADERS }
JsonCorsHeaders == JSON_HEADERS \cup CORS_HEADERS

jsonResponse(body, status) == Response(status, body, JsonCorsHeaders)

\* new Response('Method Not Allowed', {status: 405, headers: {...CORS_HEADERS, Allow}})
methodNotAllowed == Response(405, "Method Not Allowed", CORS_HEADERS \cup AllowPost)

\* the 405 of /confirm: { ...HTML_HEADERS, Allow: 'GET' }
confirmMethodNotAllowed == Response(405, "Method Not Allowed", HTML_HEADERS \cup AllowGet)

\* htmlResponse: status 400 for an error page, 200 otherwise
htmlResponse(title, kind) ==
    Response(IF kind = "error" THEN 400 ELSE 200, title, HTML_HEADERS)

\* what `last` keeps of a request: the handler, the email it looked up in the
\* store (<<>> when it answered before any lookup), the token of the request
\* (the token parameter of /confirm, the value randomUUID returned in
\* /api/subscribe, the password field of the /api/profile body; "" when it
\* answered before any lookup) and the response
handled(op, email, token, response) ==
    [op |-> op, email |-> email, token |-> token,
     status |-> response.status, body |-> response.body,
     headers |-> response.headers]

rejected(op, response) == handled(op, <<>>, "", response)

----------------------------------------------------------------------------
(* Store *)

SubscriptionRow(confirmed, token, created_at, updated_at, token_created_at) ==
    [confirmed |-> confirmed, confirmation_token |-> token,
     created_at |-> created_at, updated_at |-> updated_at,
     token_created_at |-> token_created_at]

\* SELECT ... FROM subscriptions WHERE email = ?
hasSubscription(email) == email \in DOMAIN subscriptions

hasProfile(email) == email \in DOMAIN profiles

\* a table after an INSERT or UPDATE of the one row keyed by email
putRow_replaceTable(table, email, row) ==
    [k \in {email} |-> row]

putRow(table, email, row) ==
    [k \in DOMAIN table \cup {email} |-> IF k = email THEN row ELSE table[k]]

\* handleConfirmation: if (existing.confirmed), tested before the token is
alreadyConfirmed_afterToken(existing, token) ==
    /\ existing.confirmed
    /\ existing.confirmation_token # NULL
    /\ existing.confirmation_token = token

alreadyConfirmed(existing, token) == existing.confirmed

\* handleConfirmation: the stored token is missing or differs from the link's
invalidToken_onlyMissing(existing, token) ==
    existing.confirmation_token = NULL

invalidToken(existing, token) ==
    \/ existing.confirmation_token = NULL
    \/ existing.confirmation_token # token

\* handleConfirmation: UPDATE subscriptions SET confirmed = 1,
\* confirmation_token = NULL, updated_at = ?, token_created_at = NULL
confirmUpdate_keepToken(existing, now) ==
    [existing EXCEPT !.confirmed = TRUE,
                     !.updated_at = now]

confirmUpdate_keepTimestamp(existing, now) ==
    [existing EXCEPT !.confirmed = TRUE,
                     !.confirmation_token = NULL,
                     !.token_created_at = NULL_TIME]

confirmUpdate(existing, now) ==
    [existing EXCEPT !.confirmed = TRUE,
                     !.confirmation_token = NULL,
                     !.updated_at = now,
                     !.token_created_at = NULL_TIME]

\* handleSubscribe: if (existing.confirmed) return "already confirmed"
existingConfirmed_never(existing) == FALSE

existingConfirmed(existing) == existing.confirmed

\* handleSubscribe: token = existing.confirmation_token ?? token
reuseToken_rotate(existing, randomUUID) == randomUUID

reuseToken_stored(existing, randomUUID) == existing.confirmation_token

reuseToken(existing, randomUUID) ==
    IF existing.confirmation_token # NULL
    THEN existing.confirmation_token
    ELSE randomUUID

\* handleSubscribe: UPDATE subscriptions SET confirmation_token = ?,
\* token_created_at = ?, updated_at = ?
subscribeUpdate(existing, token, now) ==
    [existing EXCEPT !.confirmation_token = token,
                     !.token_created_at = now,
                     !.updated_at = now]

\* handleSubscribe: INSERT INTO subscriptions (email, created_at, confirmed,
\* confirmation_token, token_created_at) VALUES (?, ?, 0, ?, ?)
subscribeInsert_noTokenTime(token, now) ==
    SubscriptionRow(FALSE, token, now, NULL_TIME, NULL_TIME)

subscribeInsert(token, now) ==
    SubscriptionRow(FALSE, token, now, NULL_TIME, now)

\* handleProfile: SELECT email FROM subscriptions WHERE email = ? found a row
profileSubscriptionFound_always(email) == TRUE

profileSubscriptionFound(email) == hasSubscription(email)

\* handleProfile: INSERT INTO profiles (email, name, bio, created_at, updated_at)
\* ... ON CONFLICT(email) DO UPDATE SET name, bio, updated_at
profileUpsert_replace(email, name, bio, now) ==
    putRow(profiles, email,
           [id |-> Cardinality(DOMAIN profiles \cup {email}),
            name |-> name, bio |-> bio,
            created_at |-> now, updated_at |-> now])

profileUpsert(email, name, bio, now) ==
    IF hasProfile(email)
    THEN [profiles EXCEPT ![email] =
            [@ EXCEPT !.name = name, !.bio = bio, !.updated_at = now]]
    ELSE putRow(profiles, email,
            [id |-> Cardinality(DOMAIN profiles) + 1,
             name |-> name, bio |-> bio,
             created_at |-> now, updated_at |-> now])

\* the profiles table of index.ts has no password column: a row stores none
passwordDigest(profile) == NULL

----------------------------------------------------------------------------
(* Statements *)

\* a prepared statement: its kind, its table and the columns it names
Statement(kind, table, columns) ==
    [kind |-> kind, table |-> table, columns |-> columns]

createSubscriptions == Statement("CREATE", "subscriptions", SubscriptionColumns)

createProfiles == Statement("CREATE", "profiles", ProfileColumns)

\* ensureSchema: the two CREATE TABLE IF NOT EXISTS, run one after the other
ensureSchema == <<createSubscriptions, createProfiles>>

\* SELECT email, confirmed, confirmation_token FROM subscriptions WHERE email = ?
selectSubscription ==
    Statement("SELECT", "subscriptions", {"email", "confirmed", "confirmation_token"})

\* SELECT email FROM subscriptions WHERE email = ?
selectSubscriptionEmail == Statement("SELECT", "subscriptions", {"email"})

updateConfirmed ==
    Statement("UPDATE", "subscriptions",
              {"confirmed", "confirmation_token", "updated_at", "token_created_at", "email"})

updateToken ==
    Statement("UPDATE", "subscriptions",
              {"confirmation_token", "token_created_at", "updated_at", "email"})

insertSubscription ==
    Statement("INSERT", "subscriptions",
              {"email", "created_at", "confirmed", "confirmation_token", "token_created_at"})

upsertProfile ==
    Statement("INSERT", "profiles", {"email", "name", "bio", "created_at", "updated_at"})

\* CREATE TABLE IF NOT EXISTS leaves an existing table as it is
createIfNotExists(tables, statement) ==
    IF statement.table \in DOMAIN tables
    THEN tables
    ELSE [t \in DOMAIN tables \cup {statement.table} |->
            IF t = statement.table THEN statement.columns ELSE tables[t]]

\* the schema once the first n statements of ensureSchema have run
schemaAfter(n) ==
    IF n = 0 THEN schema
    ELSE IF n = 1 THEN createIfNotExists(schema, createSubscriptions)
    ELSE createIfNotExists(createIfNotExists(schema, createSubscriptions),
                           createProfiles)

\* env.DB throws at the statement the fault hits, and at a statement that
\* names a column its table does not have
throws(statement, index, fault) ==
    \/ index = fault
    \/ /\ statement.kind # "CREATE"
       /\ statement.table \in DOMAIN schema
       /\ ~(statement.columns \subseteq schema[statement.table])

\* the index of the first statement of the plan that throws, 0 if none does
firstThrow(plan, fault) ==
    LET thrown == {i \in 1..Len(plan) : throws(plan[i], i, fault)}
    IN  IF thrown = {} THEN 0
        ELSE CHOOSE i \in thrown : \A j \in thrown : i <= j

\* what the request sent to env.DB: the statements up to the one that threw
sent(plan, thrown) ==
    [i \in 1..(IF thrown = 0 THEN Len(plan) ELSE thrown) |->
        [kind |-> plan[i].kind, table |-> plan[i].table, threw |-> i = thrown]]

\* a request that ran the plan until statement `thrown` threw (0: none did):
\* its record of statements and the schema it leaves
ran(plan, thrown) ==
    /\ operations' = sent(plan, thrown)
    /\ schema' = schemaAfter(IF thrown = 0 \/ thrown > 2 THEN 2 ELSE thrown - 1)

\* a request answered before anything was sent to env.DB
untouched ==
    /\ operations' = << >>
    /\ UNCHANGED schema

\* the promise fetch returns rejects: no handler caught the error
uncaughtException == Response(0, "uncaught exception", NoHeaders)

----------------------------------------------------------------------------
(* Handlers *)

\* a fresh database, no optional binding, no request yet
Init ==
    /\ subscriptions = << >>
    /\ profiles = << >>
    /\ schema = << >>
    /\ env = NoAdmin
    /\ inflight = << >>
    /\ waitUntil = << >>
    /\ operations = << >>
    /\ clock = 0
    /\ last = rejected("none", Response(0, "", NoHeaders))

\* GET /confirm?token=&email=; a store error is caught and answered with the
\* error page
handleConfirmation(method, token, email, fault) ==
    LET normalizedEmail == normalize(email)
        op == "confirm"
        found == hasSubscription(normalizedEmail)
        confirms == /\ found
                    /\ ~alreadyConfirmed(subscriptions[normalizedEmail], token)
                    /\ ~invalidToken(subscriptions[normalizedEmail], token)
        plan == ensureSchema \o <<selectSubscription>>
                \o (IF confirms THEN <<updateConfirmed>> ELSE << >>)
        thrown == firstThrow(plan, fault)
    IN
    /\ waitUntil' = << >>
    /\ UNCHANGED <<profiles, env, inflight, clock>>
    /\ IF method # "GET" THEN
           /\ last' = rejected(op, confirmMethodNotAllowed)
           /\ untouched
           /\ UNCHANGED subscriptions
       ELSE IF token = "" \/ email = <<>> THEN
           /\ last' = rejected(op, htmlResponse("missing required information", "error"))
           /\ untouched
           /\ UNCHANGED subscriptions
       ELSE IF normalizedEmail = <<>> THEN
           /\ last' = rejected(op, htmlResponse("missing required information", "error"))
           /\ untouched
           /\ UNCHANGED subscriptions
       ELSE
           /\ ran(plan, thrown)
           /\ IF thrown # 0 THEN
                  /\ last' = handled(op, normalizedEmail, token,
                                     htmlResponse("Something went wrong", "error"))
                  /\ UNCHANGED subscriptions
              ELSE IF ~found THEN
                  /\ last' = handled(op, normalizedEmail, token,
                                     htmlResponse("could not find a subscription", "error"))
                  /\ UNCHANGED subscriptions
              ELSE IF alreadyConfirmed(subscriptions[normalizedEmail], token) THEN
                  /\ last' = handled(op, normalizedEmail, token,
                                     htmlResponse("already confirmed", "success"))
                  /\ UNCHANGED subscriptions
              ELSE IF invalidToken(subscriptions[normalizedEmail], token) THEN
                  /\ last' = handled(op, normalizedEmail, token,
                                     htmlResponse("link no longer valid", "error"))
                  /\ UNCHANGED subscriptions
              ELSE
                  /\ subscriptions' =
                       putRow(subscriptions, normalizedEmail,
                              confirmUpdate(subscriptions[normalizedEmail], clock))
                  /\ last' = handled(op, normalizedEmail, token,
                                     htmlResponse("email has been confirmed", "success"))

\* POST /api/check; nothing catches a store error
handleSubscriptionCheck_touch(body, fault) ==
    LET email == normalize(body.email)
        op == "check"
        plan == ensureSchema \o <<selectSubscriptionEmail>>
        thrown == firstThrow(plan, fault)
    IN
    /\ waitUntil' = << >>
    /\ UNCHANGED <<profiles, env, inflight, clock>>
    /\ IF ~parseJson(body) \/ ~body.hasEmail THEN
           /\ last' = rejected(op, jsonResponse("Invalid request.", 400))
           /\ untouched
           /\ UNCHANGED subscriptions
       ELSE IF ~isValidEmail(email) THEN
           /\ last' = rejected(op, jsonResponse("Invalid email address.", 400))
           /\ untouched
           /\ UNCHANGED subscriptions
       ELSE
           /\ ran(plan, thrown)
           /\ IF thrown # 0 THEN
                  /\ last' = handled(op, email, "", uncaughtException)
                  /\ UNCHANGED subscriptions
              ELSE IF hasSubscription(email) THEN
                  /\ last' = handled(op, email, "", jsonResponse("exists", 200))
                  /\ subscriptions' =
                       [subscriptions EXCEPT ![email] = [@ EXCEPT !.updated_at = clock]]
              ELSE
                  /\ last' = handled(op, email, "", jsonResponse("available", 200))
                  /\ UNCHANGED subscriptions

handleSubscriptionCheck_schemaFirst(body, fault) ==
    LET email == normalize(body.email)
        op == "check"
        plan == ensureSchema \o <<selectSubscriptionEmail>>
        thrown == firstThrow(plan, fault)
    IN
    /\ waitUntil' = << >>
    /\ UNCHANGED <<subscriptions, profiles, env, inflight, clock>>
    /\ IF ~parseJson(body) \/ ~body.hasEmail THEN
           /\ last' = rejected(op, jsonResponse("Invalid request.", 400))
           /\ untouched
       ELSE IF ~isValidEmail(email) THEN
           /\ last' = rejected(op, jsonResponse("Invalid email address.", 400))
           /\ ran(ensureSchema, firstThrow(ensureSchema, fault))
       ELSE
           /\ ran(plan, thrown)
           /\ IF thrown # 0 THEN
                  last' = handled(op, email, "", uncaughtException)
              ELSE IF hasSubscription(email) THEN
                  last' = handled(op, email, "", jsonResponse("exists", 200))
              ELSE
                  last' = handled(op, email, "", jsonResponse("available", 200))

handleSubscriptionCheck_onlyConfirmed(body, fault) ==
    LET email == normalize(body.email)
        op == "check"
        plan == ensureSchema \o <<selectSubscriptionEmail>>
        thrown == firstThrow(plan, fault)
    IN
    /\ waitUntil' = << >>
    /\ UNCHANGED <<subscriptions, profiles, env, inflight, clock>>
    /\ IF ~parseJson(body) \/ ~body.hasEmail THEN
           /\ last' = rejected(op, jsonResponse("Invalid request.", 400))
           /\ untouched
       ELSE IF ~isValidEmail(email) THEN
           /\ last' = rejected(op, jsonResponse("Invalid email address.", 400))
           /\ untouched
       ELSE
           /\ ran(plan, thrown)
           /\ IF thrown # 0 THEN
                  last' = handled(op, email, "", uncaughtException)
              ELSE IF hasSubscription(email) /\ subscriptions[email].confirmed THEN
                  last' = handled(op, email, "", jsonResponse("exists", 200))
              ELSE
                  last' = handled(op, email, "", jsonResponse("available", 200))

handleSubscriptionCheck(body, fault) ==
    LET email == normalize(body.email)
        op == "check"
        plan == ensureSchema \o <<selectSubscriptionEmail>>
        thrown == firstThrow(plan, fault)
    IN
    /\ waitUntil' = << >>
    /\ UNCHANGED <<subscriptions, profiles, env, inflight, clock>>
    /\ IF ~parseJson(body) \/ ~body.hasEmail THEN
           /\ last' = rejected(op, jsonResponse("Invalid request.", 400))
           /\ untouched
       ELSE IF ~isValidEmail(email) THEN
           /\ last' = rejected(op, jsonResponse("Invalid email address.", 400))
           /\ untouched
       ELSE
           /\ ran(plan, thrown)
           /\ IF thrown # 0 THEN
                  last' = handled(op, email, "", uncaughtException)
              ELSE IF hasSubscription(email) THEN
                  last' = handled(op, email, "", jsonResponse("exists", 200))
              ELSE
                  last' = handled(op, email, "", jsonResponse("available", 200))

\* POST /api/profile; the password of the body is never read
handleProfile(method, body, fault) ==
    LET email == IF body.hasEmail THEN normalize(body.email) ELSE <<>>
        name == trim(body.name)
        bio == trim(body.bio)
        op == "profile"
        plan == ensureSchema \o <<selectSubscriptionEmail>>
                \o (IF profileSubscriptionFound(email)
                    THEN <<upsertProfile>> ELSE << >>)
        thrown == firstThrow(plan, fault)
    IN
    /\ waitUntil' = << >>
    /\ UNCHANGED <<subscriptions, env, inflight, clock>>
    /\ IF method # "POST" THEN
           /\ last' = rejected(op, methodNotAllowed)
           /\ untouched
           /\ UNCHANGED profiles
       ELSE IF ~parseJson(body) THEN
           /\ last' = rejected(op, jsonResponse("Invalid JSON body.", 400))
           /\ untouched
           /\ UNCHANGED profiles
       ELSE IF ~isValidEmail(email) THEN
           /\ last' = rejected(op, jsonResponse("Invalid email address.", 400))
           /\ untouched
           /\ UNCHANGED profiles
       ELSE IF name = <<>> THEN
           /\ last' = rejected(op, jsonResponse("Name is required.", 400))
           /\ untouched
           /\ UNCHANGED profiles
       ELSE IF bio = <<>> THEN
           /\ last' = rejected(op, jsonResponse("Bio is required.", 400))
           /\ untouched
           /\ UNCHANGED profiles
       ELSE
           /\ ran(plan, thrown)
           /\ IF thrown # 0 THEN
                  /\ last' = handled(op, email, body.password,
                                     jsonResponse("Internal Server Error", 500))
                  /\ UNCHANGED profiles
              ELSE IF ~profileSubscriptionFound(email) THEN
                  /\ last' = handled(op, email, body.password,
                                     jsonResponse("Email not found in subscriptions.", 404))
                  /\ UNCHANGED profiles
              ELSE
                  /\ profiles' = profileUpsert(email, name, bio, clock)
                  /\ last' = handled(op, email, body.password,
                                     jsonResponse("Profile saved successfully.", 200))

\* POST /api/subscribe; randomUUID is the value crypto.randomUUID() returns
handleSubscribe(body, randomUUID, fault) ==
    LET normalizedEmail == normalize(body.email)
        op == "subscribe"
        found == hasSubscription(normalizedEmail)
        confirmed == found /\ existingConfirmed(subscriptions[normalizedEmail])
        token == IF found
                 THEN reuseToken(subscriptions[normalizedEmail], randomUUID)
                 ELSE randomUUID
        task == [to |-> normalizedEmail,
                 link |-> buildConfirmationLink(normalizedEmail, token),
                 provider |-> "none",
                 attempts |-> 0,
                 outcome |-> "pending"]
        plan == ensureSchema \o <<selectSubscription>>
                \o (IF confirmed THEN << >>
                    ELSE IF found THEN <<updateToken>>
                    ELSE <<insertSubscription>>)
        thrown == firstThrow(plan, fault)
    IN
    /\ UNCHANGED <<profiles, env, inflight, clock>>
    /\ IF ~parseJson(body) THEN
           /\ last' = rejected(op, jsonResponse("Invalid JSON body.", 400))
           /\ waitUntil' = << >>
           /\ untouched
           /\ UNCHANGED subscriptions
       ELSE IF ~body.hasEmail \/ ~isValidEmail(body.email) THEN
           /\ last' = rejected(op, jsonResponse("A valid email address is required.", 400))
           /\ waitUntil' = << >>
           /\ untouched
           /\ UNCHANGED subscriptions
       ELSE
           /\ ran(plan, thrown)
           /\ IF thrown # 0 THEN
                  /\ last' = handled(op, normalizedEmail, randomUUID,
                                     jsonResponse("Internal Server Error", 500))
                  /\ waitUntil' = << >>
                  /\ UNCHANGED subscriptions
              ELSE IF confirmed THEN
                  /\ last' = handled(op, normalizedEmail, randomUUID,
                                     jsonResponse("Email is already confirmed.", 200))
                  /\ waitUntil' = << >>
                  /\ UNCHANGED subscriptions
              ELSE
                  /\ subscriptions' =
                       IF found
                       THEN putRow(subscriptions, normalizedEmail,
                               subscribeUpdate(subscriptions[normalizedEmail], token, clock))
                       ELSE putRow(subscriptions, normalizedEmail,
                               subscribeInsert(token, clock))
                  /\ waitUntil' = <<task>>
                  /\ last' = handled(op, normalizedEmail, randomUUID,
                                     jsonResponse("Confirmation email sent.", 202))

\* the promise handed to ctx.waitUntil settles: sendConfirmationEmail calls
\* sendWithMailChannels, whatever env holds, and the email went out (ok), or
\* the send threw and .catch logged 'Failed to send confirmation email'
sendConfirmationEmail_surface(ok) ==
    /\ waitUntil # << >>
    /\ waitUntil[1].outcome = "pending"
    /\ waitUntil' = <<[waitUntil[1] EXCEPT !.provider = "MailChannels",
                                           !.attempts = @ + 1,
                                           !.outcome = IF ok THEN "sent" ELSE "logged"]>>
    /\ last' = IF ok THEN last
               ELSE [last EXCEPT !.status = 500, !.body = "Internal Server Error"]
    /\ UNCHANGED <<subscriptions, profiles, schema, env, inflight, operations, clock>>

\* a send that failed is attempted again
sendConfirmationEmail_retry(ok) ==
    /\ waitUntil # << >>
    /\ waitUntil[1].outcome \in {"pending", "logged"}
    /\ waitUntil[1].attempts < 2
    /\ waitUntil' = <<[waitUntil[1] EXCEPT !.provider = "MailChannels",
                                           !.attempts = @ + 1,
                                           !.outcome = IF ok THEN "sent" ELSE "logged"]>>
    /\ UNCHANGED <<subscriptions, profiles, schema, env, inflight, operations, clock, last>>

sendConfirmationEmail(ok) ==
    /\ waitUntil # << >>
    /\ waitUntil[1].outcome = "pending"
    /\ waitUntil' = <<[waitUntil[1] EXCEPT !.provider = "MailChannels",
                                           !.attempts = @ + 1,
                                           !.outcome = IF ok THEN "sent" ELSE "logged"]>>
    /\ UNCHANGED <<subscriptions, profiles, schema, env, inflight, operations, clock, last>>

\* time passes between requests
Tick ==
    /\ clock < MaxClock
    /\ clock' = clock + 1
    /\ UNCHANGED <<subscriptions, profiles, schema, env, inflight, waitUntil, operations, last>>

----------------------------------------------------------------------------
(* Router: export default { fetch } *)

\* a response of fetch itself: no handler ran, nothing was handed to ctx
respond(op, response) ==
    /\ last' = rejected(op, response)
    /\ waitUntil' = << >>
    /\ untouched
    /\ UNCHANGED <<subscriptions, profiles, env, inflight, clock>>

\* OPTIONS is answered before the path is looked at
Options_bare == respond("options", Response(204, "", NoHeaders))

Options == respond("options", Response(204, "", CORS_HEADERS))

\* the branches of fetch by url.pathname
fetchConfirm(request) ==
    handleConfirmation(request.method, request.token, request.email, 0)

fetchProfile(request) ==
    handleProfile(request.method, request.body, 0)

fetchCheck(request) ==
    IF request.method # "POST"
    THEN respond("check", methodNotAllowed)
    ELSE handleSubscriptionCheck(request.body, 0)

fetchSubscribe(request, randomUUID) ==
    IF request.method # "POST"
    THEN respond("subscribe", methodNotAllowed)
    ELSE handleSubscribe(request.body, randomUUID, 0)

ConfirmRoute == \E request \in ConfirmRequests : fetchConfirm(request)

ProfileRoute == \E request \in ProfileRequests : fetchProfile(request)

CheckRoute == \E request \in EmailRequests : fetchCheck(request)

SubscribeRoute ==
    \E request \in EmailRequests, randomUUID \in Tokens :
        fetchSubscribe(request, randomUUID)

\* no route matched: the response of env.ASSETS if bound, else 404 Not Found;
\* op, email and token say which request it was
notRouted(op, email, token) ==
    \E status \in {200, 404} :
        /\ last' = handled(op, email, token, Response(status, "", NoHeaders))
        /\ waitUntil' = << >>
        /\ untouched
        /\ UNCHANGED <<subscriptions, profiles, env, inflight, clock>>

\* any other path
Fallthrough == notRouted("assets", <<>>, "")

\* POST /api/login and POST /api/admin/login: fetch has no route for them
LoginRoute ==
    \E request \in LoginRequests :
        notRouted("login", normalize(request.email), request.password)

AdminLoginRoute ==
    \E request \in LoginRequests :
        notRouted("admin login", request.email, request.password)

Next ==
    \/ Options
    \/ ConfirmRoute
    \/ ProfileRoute
    \/ CheckRoute
    \/ SubscribeRoute
    \/ Fallthrough
    \/ Tick

Spec == Init /\ [][Next]_vars

----------------------------------------------------------------------------
(* The worker with the detached sends settling *)

Send == \E ok \in BOOLEAN : sendConfirmationEmail(ok)

NextSend ==
    \/ Next
    \/ Send

SpecSend == Init /\ [][NextSend]_vars

----------------------------------------------------------------------------
(* The worker with and without the SendGrid credential *)

InitProvider ==
    /\ subscriptions = << >>
    /\ profiles = << >>
    /\ schema = << >>
    /\ env \in SendGridEnvs
    /\ inflight = << >>
    /\ waitUntil = << >>
    /\ operations = << >>
    /\ clock = 0
    /\ last = rejected("none", Response(0, "", NoHeaders))

NextProvider ==
    \/ SubscribeRoute
    \/ ConfirmRoute
    \/ Send

SpecProvider == InitProvider /\ [][NextProvider]_vars

----------------------------------------------------------------------------
(* The worker on a store that throws *)

FailingConfirm ==
    \E request \in ConfirmRequests, fault \in StoreFaults :
        handleConfirmation(request.method, request.token, request.email, fault)

FailingProfile ==
    \E request \in ProfileRequests, fault \in StoreFaults :
        handleProfile(request.method, request.body, fault)

FailingCheck ==
    \E request \in EmailRequests, fault \in StoreFaults :
        /\ request.method = "POST"
        /\ handleSubscriptionCheck(request.body, fault)

FailingSubscribe ==
    \E request \in EmailRequests, randomUUID \in Tokens, fault \in StoreFaults :
        /\ request.method = "POST"
        /\ handleSubscribe(request.body, randomUUID, fault)

NextFault ==
    \/ SubscribeRoute
    \/ FailingConfirm
    \/ FailingProfile
    \/ FailingCheck
    \/ FailingSubscribe

SpecFault == Init /\ [][NextFault]_vars

\* the store throws and the detached sends settle
NextAttempts ==
    \/ NextFault
    \/ Send

SpecAttempts == Init /\ [][NextAttempts]_vars

----------------------------------------------------------------------------
(* The worker on a legacy database *)

\* a subscriptions table created before the columns after email were added
LegacySchemas ==
    { [t \in {"subscriptions", "profiles"} |->
         IF t = "subscriptions" THEN {"email"} \cup present ELSE ProfileColumns] :
      present \in (SUBSET LegacyColumns) \ {LegacyColumns} }

InitLegacy ==
    /\ subscriptions = << >>
    /\ profiles = << >>
    /\ schema \in LegacySchemas
    /\ env = NoAdmin
    /\ inflight = << >>
    /\ waitUntil = << >>
    /\ operations = << >>
    /\ clock = 0
    /\ last = rejected("none", Response(0, "", NoHeaders))

NextLegacy ==
    \/ ConfirmRoute
    \/ ProfileRoute
    \/ CheckRoute
    \/ SubscribeRoute

SpecLegacy == InitLegacy /\ [][NextLegacy]_vars

----------------------------------------------------------------------------
(* The worker asked to log in *)

InitLogin ==
    /\ subscriptions = << >>
    /\ profiles = << >>
    /\ schema = << >>
    /\ env \in AdminEnvs
    /\ inflight = << >>
    /\ waitUntil = << >>
    /\ operations = << >>
    /\ clock = 0
    /\ last = rejected("none", Response(0, "", NoHeaders))

NextLogin ==
    \/ SubscribeRoute
    \/ ProfileRoute
    \/ LoginRoute
    \/ AdminLoginRoute

SpecLogin == InitLogin /\ [][NextLogin]_vars

----------------------------------------------------------------------------
(* The worker with two requests in flight: handlers interleave at their awaits *)

\* the requests fetch is serving at the same time
Requests == {1, 2}

\* what .first() returned for SELECT email, confirmed, confirmation_token
NoRecord == [found |-> FALSE, confirmed |-> FALSE, confirmation_token |-> NULL]

first(email) ==
    IF hasSubscription(email)
    THEN [found |-> TRUE,
          confirmed |-> subscriptions[email].confirmed,
          confirmation_token |-> subscriptions[email].confirmation_token]
    ELSE NoRecord

\* a request no handler is running for
Idle ==
    [op |-> "idle", pc |-> "idle", email |-> <<>>, token |-> "",
     existing |-> NoRecord, now |-> 0, status |-> 0, sent |-> << >>]

\* the handler is suspended at the await of its write
suspended(op, email, token, existing, now) ==
    [op |-> op, pc |-> "write", email |-> email, token |-> token,
     existing |-> existing, now |-> now, status |-> 0, sent |-> << >>]

\* the handler returned: its response and what it handed to ctx.waitUntil
returned(request, response, tasks) ==
    [request EXCEPT !.pc = "done", !.status = response.status, !.sent = tasks]

\* the bodies and links of the racing requests: they pass validation
RaceBodies ==
    { [kind |-> "object", hasEmail |-> TRUE, email |-> r] :
        r \in { <<"a", "@", "b", ".", "c">>, <<"A", "@", "b", ".", "c">> } }

RaceLinks ==
    { [method |-> "GET", token |-> t, email |-> <<"a", "@", "b", ".", "c">>] :
        t \in Tokens }

\* the store checks nothing but the constraints of CREATE TABLE: an UPDATE is
\* applied whatever the row has become since the handler read it
writeConflict_optimistic(existing, current) == existing # current

writeConflict(existing, current) == FALSE

\* email TEXT PRIMARY KEY: an INSERT of an email that has a row throws
primaryKeyConflict_replace(email) == FALSE

primaryKeyConflict(email) == hasSubscription(email)

\* one statement sent to env.DB
statementSent(statement, threw) ==
    <<[kind |-> statement.kind, table |-> statement.table, threw |-> threw]>>

\* the request answered: fetch returns its response
answer(r, op, response, tasks) ==
    /\ inflight' = [inflight EXCEPT ![r] = returned(@, response, tasks)]
    /\ last' = handled(op, inflight'[r].email, inflight'[r].token, response)
    /\ waitUntil' = tasks

\* handleSubscribe from its start to the await of its INSERT or UPDATE:
\* validation, ensureSchema, the SELECT, new Date() and crypto.randomUUID()
subscribeLookup(r, body, randomUUID) ==
    LET normalizedEmail == normalize(body.email)
        existing == first(normalizedEmail)
        token == IF existing.found THEN reuseToken(existing, randomUUID)
                 ELSE randomUUID
        started == suspended("subscribe", normalizedEmail, token, existing, clock)
    IN
    /\ inflight[r].pc \in {"idle", "done"}
    /\ parseJson(body) /\ body.hasEmail /\ isValidEmail(body.email)
    /\ ran(ensureSchema \o <<selectSubscription>>, 0)
    /\ UNCHANGED <<subscriptions, profiles, env, clock>>
    /\ IF existing.found /\ existingConfirmed(existing) THEN
           /\ inflight' = [inflight EXCEPT ![r] =
                  returned(started, jsonResponse("Email is already confirmed.", 200), << >>)]
           /\ last' = handled("subscribe", normalizedEmail, token,
                              jsonResponse("Email is already confirmed.", 200))
           /\ waitUntil' = << >>
       ELSE
           /\ inflight' = [inflight EXCEPT ![r] = started]
           /\ UNCHANGED <<last, waitUntil>>

\* handleSubscribe from its INSERT or UPDATE to its return
subscribeWrite(r) ==
    LET request == inflight[r]
        email == request.email
        statement == IF request.existing.found THEN updateToken ELSE insertSubscription
        threw == IF request.existing.found
                 THEN writeConflict(request.existing, first(email))
                 ELSE primaryKeyConflict(email)
        task == [to |-> email,
                 link |-> buildConfirmationLink(email, request.token),
                 provider |-> "none",
                 attempts |-> 0,
                 outcome |-> "pending"]
    IN
    /\ request.op = "subscribe"
    /\ request.pc = "write"
    /\ operations' = statementSent(statement, threw)
    /\ UNCHANGED <<profiles, schema, env, clock>>
    /\ IF threw THEN
           /\ UNCHANGED subscriptions
           /\ answer(r, "subscribe", jsonResponse("Internal Server Error", 500), << >>)
       ELSE
           /\ subscriptions' =
                IF request.existing.found
                THEN putRow(subscriptions, email,
                        subscribeUpdate(subscriptions[email], request.token, request.now))
                ELSE putRow(subscriptions, email,
                        subscribeInsert(request.token, request.now))
           /\ answer(r, "subscribe", jsonResponse("Confirmation email sent.", 202), <<task>>)

\* handleConfirmation from its start to the await of its UPDATE
confirmLookup(r, link) ==
    LET normalizedEmail == normalize(link.email)
        existing == first(normalizedEmail)
        started == suspended("confirm", normalizedEmail, link.token, existing, clock)
        page == IF ~existing.found
                THEN htmlResponse("could not find a subscription", "error")
                ELSE IF alreadyConfirmed(existing, link.token)
                THEN htmlResponse("already confirmed", "success")
                ELSE htmlResponse("link no longer valid", "error")
    IN
    /\ inflight[r].pc \in {"idle", "done"}
    /\ link.method = "GET" /\ link.token # "" /\ normalizedEmail # <<>>
    /\ ran(ensureSchema \o <<selectSubscription>>, 0)
    /\ UNCHANGED <<subscriptions, profiles, env, clock>>
    /\ IF \/ ~existing.found
          \/ alreadyConfirmed(existing, link.token)
          \/ invalidToken(existing, link.token) THEN
           /\ inflight' = [inflight EXCEPT ![r] = returned(started, page, << >>)]
           /\ last' = handled("confirm", normalizedEmail, link.token, page)
           /\ waitUntil' = << >>
       ELSE
           /\ inflight' = [inflight EXCEPT ![r] = started]
           /\ UNCHANGED <<last, waitUntil>>

\* handleConfirmation from its UPDATE to its return
confirmWrite(r) ==
    LET request == inflight[r]
        email == request.email
    IN
    /\ request.op = "confirm"
    /\ request.pc = "write"
    /\ operations' = statementSent(updateConfirmed, FALSE)
    /\ UNCHANGED <<profiles, schema, env, clock>>
    /\ subscriptions' =
         putRow(subscriptions, email, confirmUpdate(subscriptions[email], request.now))
    /\ answer(r, "confirm", htmlResponse("email has been confirmed", "success"), << >>)

SubscribeLookup ==
    \E r \in Requests, body \in RaceBodies, randomUUID \in Tokens :
        subscribeLookup(r, body, randomUUID)

SubscribeWrite == \E r \in Requests : subscribeWrite(r)

ConfirmLookup == \E r \in Requests, link \in RaceLinks : confirmLookup(r, link)

ConfirmWrite == \E r \in Requests : confirmWrite(r)

\* a database with no row, or with the row of a@b.c as an older worker left
\* it: pending with no token
LegacyRow == SubscriptionRow(FALSE, NULL, 0, NULL_TIME, NULL_TIME)

LegacyTable == [k \in { <<"a", "@", "b", ".", "c">> } |-> LegacyRow]

LegacyTables == { << >>, LegacyTable }

\* the schema of the database that holds the legacy row
LegacyRowSchema == [t \in {"subscriptions"} |-> SubscriptionColumns]

InitRace ==
    /\ subscriptions \in LegacyTables
    /\ profiles = << >>
    /\ schema = IF subscriptions = << >> THEN << >> ELSE LegacyRowSchema
    /\ env = NoAdmin
    /\ inflight = [r \in Requests |-> Idle]
    /\ waitUntil = << >>
    /\ operations = << >>
    /\ clock = 0
    /\ last = rejected("none", Response(0, "", NoHeaders))

\* the worker, requests run to completion, on the database with the legacy row
InitLegacyRow ==
    /\ subscriptions = LegacyTable
    /\ profiles = << >>
    /\ schema = LegacyRowSchema
    /\ env = NoAdmin
    /\ inflight = << >>
    /\ waitUntil = << >>
    /\ operations = << >>
    /\ clock = 0
    /\ last = rejected("none", Response(0, "", NoHeaders))

NextLegacyRow ==
    \/ ConfirmRoute
    \/ CheckRoute
    \/ SubscribeRoute
    \/ Tick

SpecLegacyRow == InitLegacyRow /\ [][NextLegacyRow]_vars

NextRace ==
    \/ SubscribeLookup
    \/ SubscribeWrite
    \/ ConfirmLookup
    \/ ConfirmWrite
    \/ Tick

SpecRace == InitRace /\ [][NextRace]_vars

----------------------------------------------------------------------------
(* Properties *)

KeyAB == <<"a", "@", "b", ".", "c">>

\* this step is a request that handler op answered after looking up `email`
\* (only Tick changes the clock, and every handler records itself in last)
requestStep(op, email) ==
    /\ clock' = clock
    /\ last'.op = op
    /\ last'.email = email
    /\ email # <<>>

isPending(email) ==
    hasSubscription(email) /\ ~subscriptions[email].confirmed

otherRowsUnchanged(email) ==
    \A k \in DOMAIN subscriptions \ {email} :
        k \in DOMAIN subscriptions' /\ subscriptions'[k] = subscriptions[k]

\* C1: in every reachable state a confirmed subscription row has a null
\* confirmation token; a token is stored only while the row is unconfirmed.
C1_ConfirmedHasNoToken ==
    \A e \in DOMAIN subscriptions :
        subscriptions[e].confirmed => subscriptions[e].confirmation_token = NULL

C1_Witness ==
    /\ \E e \in DOMAIN subscriptions :
          subscriptions[e].confirmed /\ subscriptions[e].confirmation_token = NULL
    /\ \E e \in DOMAIN subscriptions :
          ~subscriptions[e].confirmed /\ subscriptions[e].confirmation_token \in Tokens

\* C2: GET /confirm with the stored token of a pending row sets confirmed,
\* clears the token, sets updated_at to the time of the request and answers
\* with the success page, status 200.
C2_ConfirmWithStoredToken ==
    [][\A e \in DOMAIN subscriptions :
         ( /\ requestStep("confirm", e)
           /\ isPending(e)
           /\ subscriptions[e].confirmation_token = last'.token )
         => /\ subscriptions'[e].confirmed
            /\ subscriptions'[e].confirmation_token = NULL
            /\ subscriptions'[e].updated_at = clock
            /\ last'.status = 200
            /\ last'.body = "email has been confirmed"
      ]_vars

C2_Witness ==
    /\ last.op = "confirm"
    /\ last.status = 200
    /\ last.body = "email has been confirmed"
    /\ hasSubscription(last.email)
    /\ subscriptions[last.email].confirmed
    /\ subscriptions[last.email].confirmation_token = NULL
    /\ subscriptions[last.email].updated_at = clock
    /\ subscriptions[last.email].created_at < clock

\* C3: GET /confirm for an email without a row, or for a pending row with a
\* token other than the stored one, answers with the error page, status 400,
\* and leaves both tables as they were.
C3_FailedConfirmChangesNothing ==
    [][\A e \in RawEmails :
         ( /\ requestStep("confirm", e)
           /\ \/ ~hasSubscription(e)
              \/ isPending(e) /\ subscriptions[e].confirmation_token # last'.token )
         => /\ last'.status = 400
            /\ subscriptions' = subscriptions
            /\ profiles' = profiles
      ]_vars

C3_Witness ==
    /\ last.op = "confirm"
    /\ last.status = 400
    /\ last.body = "link no longer valid"
    /\ isPending(last.email)
    /\ subscriptions[last.email].confirmation_token \in Tokens \ {last.token}

\* C4: POST /api/subscribe for a pending row that stores a token keeps that
\* token whatever crypto.randomUUID() returns, hands one email carrying the
\* stored token to ctx.waitUntil, and changes only updated_at and
\* token_created_at of that row. (Holding at every step, it holds after any
\* number of repeated calls.)
C4_ResubscribeKeepsToken ==
    [][\A e \in DOMAIN subscriptions :
         ( /\ requestStep("subscribe", e)
           /\ isPending(e)
           /\ subscriptions[e].confirmation_token # NULL )
         => /\ subscriptions'[e] =
                  [subscriptions[e] EXCEPT !.updated_at = clock,
                                           !.token_created_at = clock]
            /\ otherRowsUnchanged(e)
            /\ Len(waitUntil') = 1
            /\ waitUntil'[1].to = e
            /\ waitUntil'[1].link.token = subscriptions[e].confirmation_token
      ]_vars

C4_Witness ==
    /\ last.op = "subscribe"
    /\ last.status = 202
    /\ Len(waitUntil) = 1
    /\ isPending(last.email)
    /\ subscriptions[last.email].updated_at = clock
    /\ subscriptions[last.email].created_at < clock
    /\ subscriptions[last.email].confirmation_token # last.token
    /\ waitUntil[1].link.token = subscriptions[last.email].confirmation_token

\* C5: POST /api/subscribe for a confirmed row answers 200 "already
\* confirmed", writes nothing and hands no email to ctx.waitUntil.
C5_SubscribeConfirmedIsNoOp ==
    [][\A e \in DOMAIN subscriptions :
         ( /\ requestStep("subscribe", e)
           /\ subscriptions[e].confirmed )
         => /\ last'.status = 200
            /\ last'.body = "Email is already confirmed."
            /\ subscriptions' = subscriptions
            /\ profiles' = profiles
            /\ waitUntil' = << >>
      ]_vars

C5_Witness ==
    /\ last.op = "subscribe"
    /\ last.status = 200
    /\ last.body = "Email is already confirmed."
    /\ waitUntil = << >>
    /\ hasSubscription(last.email)
    /\ subscriptions[last.email].confirmed

\* C6: POST /api/subscribe for an email without a row inserts one row, keyed
\* by the normalized email, unconfirmed, with the generated token and
\* token_created_at = created_at; it answers 202 and hands one email to
\* ctx.waitUntil, addressed to the normalized email, whose link carries the
\* token and (as the link's reader decodes it) the normalized email.
C6_FirstSubscribeInserts ==
    [][\A e \in RawEmails :
         ( /\ requestStep("subscribe", e)
           /\ ~hasSubscription(e) )
         => /\ DOMAIN subscriptions' = DOMAIN subscriptions \cup {e}
            /\ otherRowsUnchanged(e)
            /\ e = toLowerCase(e) /\ e = trim(e)
            /\ ~subscriptions'[e].confirmed
            /\ subscriptions'[e].confirmation_token = last'.token
            /\ subscriptions'[e].confirmation_token \in Tokens
            /\ subscriptions'[e].created_at = clock
            /\ subscriptions'[e].token_created_at = subscriptions'[e].created_at
            /\ last'.status = 202
            /\ Len(waitUntil') = 1
            /\ waitUntil'[1].to = e
            /\ waitUntil'[1].link.token = subscriptions'[e].confirmation_token
            /\ decodeParam(waitUntil'[1].link.email) = e
      ]_vars

C6_Witness ==
    /\ last.op = "subscribe"
    /\ last.status = 202
    /\ last.email = KeyAB
    /\ Len(waitUntil) = 1
    /\ waitUntil[1].to = KeyAB
    /\ waitUntil[1].link.email = <<"a", "%", "4", "0", "b", ".", "c">>
    /\ hasSubscription(KeyAB)
    /\ subscriptions[KeyAB].updated_at = NULL_TIME
    /\ subscriptions[KeyAB].confirmation_token = waitUntil[1].link.token
    /\ Cardinality(DOMAIN subscriptions) = 2

\* C7: a subscription row is never removed, and a row that is confirmed stays
\* confirmed, in every step of every behaviour.
C7_ConfirmedIsTerminal ==
    [][\A e \in DOMAIN subscriptions :
         /\ e \in DOMAIN subscriptions'
         /\ subscriptions[e].confirmed => subscriptions'[e].confirmed
      ]_vars

C7_Witness ==
    /\ Cardinality(DOMAIN subscriptions) = 2
    /\ last.op = "subscribe"
    /\ last.status = 200
    /\ subscriptions[last.email].confirmed
    /\ subscriptions[last.email].updated_at < clock

\* C8: POST /api/check changes no subscription row and no profile row and
\* hands no email to ctx.waitUntil, whether or not the email has a row.
C8_CheckIsReadOnly ==
    [][(clock' = clock /\ last'.op = "check")
         => /\ subscriptions' = subscriptions
            /\ profiles' = profiles
            /\ waitUntil' = << >>
      ]_vars

C8_Witness ==
    /\ last.op = "check"
    /\ last.status = 200
    /\ last.body = "exists"
    /\ hasSubscription(last.email)
    /\ subscriptions[last.email].updated_at < clock
    /\ profiles # << >>

\* C9: POST /api/profile without a password, for a subscribed email, answers
\* 400 and writes no profile row when the email has no profile, and answers
\* 200 leaving the stored password digest unchanged when it has one.
C9_ProfileWithoutPassword ==
    [][\A e \in DOMAIN subscriptions :
         ( /\ requestStep("profile", e)
           /\ last'.token = NoPassword )
         => IF hasProfile(e)
            THEN /\ last'.status = 200
                 /\ passwordDigest(profiles'[e]) = passwordDigest(profiles[e])
            ELSE /\ last'.status = 400
                 /\ profiles' = profiles
      ]_vars

----------------------------------------------------------------------------
(* Validation, failures and logins *)

\* the requests validation turns away: the email is judged as normalized
InvalidEmailBodies ==
    {b \in EmailBodies :
        ~parseJson(b) \/ ~b.hasEmail \/ ~isValidEmail(normalize(b.email))}

InvalidProfileBodies ==
    {b \in ProfileBodies :
        \/ ~parseJson(b)
        \/ ~isValidEmail(normalize(b.email))
        \/ trim(b.name) = <<>>
        \/ trim(b.bio) = <<>>}

InvalidConfirmRequests ==
    {r \in ConfirmRequests : r.method = "GET" /\ (r.token = "" \/ r.email = <<>>)}

\* the step answered 400, sent nothing to the store and handed no email over
turnedAway ==
    /\ last'.status = 400
    /\ operations' = << >>
    /\ waitUntil' = << >>
    /\ UNCHANGED <<subscriptions, profiles, schema>>

\* C11: validation precedes all store access: a Subscribe with a non-object
\* body or an invalid email, a Check with a missing or invalid email, a
\* Profile with an invalid body, an invalid email, an empty name or an empty
\* bio and a Confirm with a missing token or email each answer 400, send no
\* statement to the store (not even ensureSchema) and hand no email to
\* ctx.waitUntil.
C11_ValidationBeforeStore ==
    [][ \/ clock' # clock
        \/ turnedAway
        \/ /\ last'.op = "subscribe" =>
                \A b \in InvalidEmailBodies, randomUUID \in Tokens :
                    ~handleSubscribe(b, randomUUID, 0)
           /\ last'.op = "check" =>
                \A b \in InvalidEmailBodies : ~handleSubscriptionCheck(b, 0)
           /\ last'.op = "profile" =>
                \A b \in InvalidProfileBodies : ~handleProfile("POST", b, 0)
           /\ last'.op = "confirm" =>
                \A r \in InvalidConfirmRequests :
                    ~handleConfirmation(r.method, r.token, r.email, 0)
      ]_vars

C11_Witness ==
    /\ last.op = "profile"
    /\ last.status = 400
    /\ last.body = "Bio is required."
    /\ operations = << >>
    /\ hasSubscription(KeyAB)
    /\ schema # << >>

\* the promise in ctx.waitUntil settles in this step
settles ==
    /\ waitUntil # << >>
    /\ waitUntil' # << >>
    /\ waitUntil[1].outcome = "pending"
    /\ waitUntil'[1].outcome # "pending"

\* C12: a failed email send never fails the Subscribe that started it: a
\* Subscribe whose write went through answers 202 with the send still pending,
\* and when the send settles, sent or failed, the 202 response stands, the
\* failure is only logged and the subscription row stays in the store.
C12_SendFailureIsOnlyLogged ==
    [][ /\ ( /\ clock' = clock
             /\ last'.op = "subscribe"
             /\ subscriptions' # subscriptions )
           => /\ last'.status = 202
              /\ Len(waitUntil') = 1
              /\ waitUntil'[1].outcome = "pending"
        /\ settles
           => /\ last' = last
              /\ last.op = "subscribe"
              /\ last.status = 202
              /\ waitUntil'[1].outcome \in {"sent", "logged"}
              /\ subscriptions' = subscriptions
              /\ hasSubscription(waitUntil[1].to)
      ]_vars

C12_Witness ==
    /\ waitUntil # << >>
    /\ waitUntil[1].outcome = "logged"
    /\ last.op = "subscribe"
    /\ last.status = 202
    /\ isPending(waitUntil[1].to)

\* the last statement the request sent to the store threw
storeFailed ==
    /\ operations' # << >>
    /\ operations'[Len(operations')].threw

\* C13: in every handler that touches the store (Subscribe, Confirm, Check,
\* Profile) a store statement that throws is caught by the handler and
\* answered with the generic 500 response, never with another status and
\* never as an uncaught exception.
C13_StoreFailureIs500 ==
    [][ ( /\ storeFailed
          /\ last'.op \in {"subscribe", "confirm", "check", "profile"} )
        => /\ last'.status = 500
           /\ last'.body = "Internal Server Error"
      ]_vars

\* the columns a table is expected to have: those of CREATE TABLE and, for
\* profiles, the password digest
ExpectedColumns(table) ==
    IF table = "subscriptions"
    THEN SubscriptionColumns
    ELSE ProfileColumns \cup {"password_hash"}

\* the positions in the request's statement record of the statements of
\* these kinds on the table
statementsOn(table, kinds) ==
    {i \in DOMAIN operations' :
        operations'[i].table = table /\ operations'[i].kind \in kinds}

\* C14: on a legacy database every request that touches the store adds each
\* column its tables lack (created_at, updated_at, confirmed,
\* confirmation_token, token_created_at of subscriptions, the password digest
\* of profiles) exactly once, before its first SELECT, INSERT or UPDATE on the
\* table, and adds no column that is there.
C14_LegacyColumnsAdded ==
    [][ operations' # << >>
        => \A t \in DOMAIN schema :
             LET missing == ExpectedColumns(t) \ schema[t]
                 alters == statementsOn(t, {"ALTER"})
                 rows == statementsOn(t, {"SELECT", "INSERT", "UPDATE"})
             IN  /\ t \in DOMAIN schema'
                 /\ schema'[t] = schema[t] \cup missing
                 /\ Cardinality(alters) = Cardinality(missing)
                 /\ \A a \in alters, r \in rows : a < r
      ]_vars

\* the digest stored for the email, NULL when it has no profile
storedDigest(email) ==
    IF hasProfile(email) THEN passwordDigest(profiles[email]) ELSE NULL

\* C15: POST /api/login with {email, password} answers 404 when the email has
\* no profile or its profile stores no digest, 401 when the digest of the
\* submitted password differs from the stored one and 200 when they are
\* equal, and in all three cases it sends no INSERT and no UPDATE.
C15_MemberLogin ==
    [][ last'.op = "login"
        => /\ last'.status =
                IF storedDigest(last'.email) = NULL THEN 404
                ELSE IF sha256Hex(last'.token) # storedDigest(last'.email) THEN 401
                ELSE 200
           /\ \A i \in DOMAIN operations' :
                operations'[i].kind \notin {"INSERT", "UPDATE"}
           /\ UNCHANGED <<subscriptions, profiles>>
      ]_vars

\* the admin bindings are set: the email and a password or a password digest
adminConfigured ==
    /\ env.ADMIN_EMAIL # <<>>
    /\ env.ADMIN_PASSWORD # "" \/ env.ADMIN_PASSWORD_HASH # ""

\* the submitted credentials are the configured ones
adminMatches(email, password) ==
    /\ email = env.ADMIN_EMAIL
    /\ IF env.ADMIN_PASSWORD # ""
       THEN password = env.ADMIN_PASSWORD
       ELSE sha256Hex(password) = env.ADMIN_PASSWORD_HASH

\* C16: POST /api/admin/login answers 503 when the admin email, or both the
\* plaintext password and the password digest, are not configured; otherwise
\* 200 exactly when the submitted email is the configured one and the
\* submitted password is the configured plaintext password or, with no
\* plaintext password configured, its digest is the configured digest;
\* otherwise 401.
C16_AdminLogin ==
    [][ last'.op = "admin login"
        => last'.status =
             IF ~adminConfigured THEN 503
             ELSE IF adminMatches(last'.email, last'.token) THEN 200
             ELSE 401
      ]_vars

\* C17: the password value a profile row stores is the one-way digest of the
\* password submitted to Profile, never the plaintext: after a Profile
\* request that supplied a password and was saved, the row of the email
\* stores the digest of that password, which is not the password itself.
C17_StoredPasswordIsDigest ==
    [][ ( /\ clock' = clock
          /\ last'.op = "profile"
          /\ last'.status = 200
          /\ last'.token # NoPassword )
        => /\ last'.email \in DOMAIN profiles'
           /\ passwordDigest(profiles'[last'.email]) = sha256Hex(last'.token)
           /\ passwordDigest(profiles'[last'.email]) # last'.token
      ]_vars

\* C18: password round trip: right after a Profile request for an email that
\* supplied password p and was saved, member login with that email and p
\* answers 200 and member login with that email and a password whose digest
\* differs answers 401.
C18_PasswordRoundTrip ==
    [][ ( /\ last.op = "profile"
          /\ last.status = 200
          /\ last.token # NoPassword
          /\ last'.op = "login"
          /\ last'.email = last.email )
        => last'.status =
             IF sha256Hex(last'.token) = sha256Hex(last.token) THEN 200 ELSE 401
      ]_vars

\* the bodies that carry an email string
BodiesWithEmail == {b \in EmailBodies : parseJson(b) /\ b.hasEmail}

\* C19: Subscribe keys its record by the trimmed, lower-cased email: a
\* request whose email differs from another's only in letter case or in
\* surrounding whitespace acts on the same row, the one of the normalized
\* email, and it is answered 400 only when the normalized email fails the
\* syntactic check.
C19_SubscribeNormalizes ==
    [][ \A b \in BodiesWithEmail, randomUUID \in Tokens :
          (clock' = clock /\ handleSubscribe(b, randomUUID, 0))
          => /\ last'.status = 400 <=> ~isValidEmail(normalize(b.email))
             /\ last'.status # 400
                => /\ last'.email = normalize(b.email)
                   /\ normalize(b.email) \in DOMAIN subscriptions'
                   /\ otherRowsUnchanged(normalize(b.email))
      ]_vars

\* the bodies of Check whose email passes validation
ValidCheckBodies ==
    {b \in BodiesWithEmail : isValidEmail(normalize(b.email))}

\* C20: Check with a syntactically valid email answers 200 with exists = true
\* exactly when the store has a subscription row for the normalized email,
\* pending or confirmed, and with exists = false otherwise.
C20_CheckReportsRow ==
    [][ (clock' = clock /\ last'.op = "check")
        => \A b \in ValidCheckBodies :
             handleSubscriptionCheck(b, 0)
             => /\ last'.status = 200
                /\ last'.body = IF hasSubscription(normalize(b.email))
                                THEN "exists" ELSE "available"
      ]_vars

C20_Witness ==
    /\ last.op = "check"
    /\ last.status = 200
    /\ last.body = "exists"
    /\ isPending(last.email)
    /\ \E e \in DOMAIN subscriptions : subscriptions[e].confirmed

----------------------------------------------------------------------------
(* Methods, providers, interleavings and frames *)

\* the step sent nothing to the store, handed no email to ctx.waitUntil and
\* changed no table
quiet ==
    /\ operations' = << >>
    /\ waitUntil' = << >>
    /\ UNCHANGED <<subscriptions, profiles, schema>>

\* C21: a request with a method its route does not accept never reaches the
\* store and never dispatches an email: OPTIONS on any path answers 204 with
\* the cross-origin headers, a non-POST request to /api/subscribe, /api/check
\* or /api/profile answers 405 and a non-GET request to /confirm answers 405.
C21_WrongMethodIsRefused ==
    [][ /\ last'.op = "options"
           => /\ last'.status = 204
              /\ CORS_HEADERS \subseteq last'.headers
              /\ quiet
        /\ last'.status = 405 => quiet
        /\ (clock' = clock /\ last'.status # 405)
           => /\ \A r \in ConfirmRequests : r.method # "GET" => ~fetchConfirm(r)
              /\ \A r \in ProfileRequests : r.method # "POST" => ~fetchProfile(r)
              /\ \A r \in EmailRequests :
                    r.method # "POST"
                    => /\ ~fetchCheck(r)
                       /\ \A randomUUID \in Tokens : ~fetchSubscribe(r, randomUUID)
      ]_vars

\* a refused POST /confirm on a store that holds a pending row
C21_Witness ==
    /\ last.op = "confirm"
    /\ last.status = 405
    /\ operations = << >>
    /\ isPending(KeyAB)

\* C22: each confirmation email is sent through exactly one provider, chosen
\* by the credential that is configured: SendGrid when env.SENDGRID_API_KEY is
\* set, MailChannels otherwise.
C22_ProviderByCredential ==
    [][ settles
        => waitUntil'[1].provider =
             IF env.SENDGRID_API_KEY # "" THEN "SendGrid" ELSE "MailChannels"
      ]_vars

\* C23: Confirm on a row that is already confirmed answers the success page
\* with status 200 and writes nothing, whatever token the link carries (the
\* confirmed test comes before the token comparison); repeated any number of
\* times it leaves the row as it was.
C23_ConfirmAgainIsIdempotent ==
    [][ ( /\ clock' = clock
          /\ last'.op = "confirm"
          /\ hasSubscription(last'.email)
          /\ subscriptions[last'.email].confirmed )
        => /\ last'.status = 200
           /\ last'.body = "already confirmed"
           /\ subscriptions' = subscriptions
           /\ statementsOn("subscriptions", {"INSERT", "UPDATE"}) = {}
      ]_vars

\* a Confirm with token t2 that found the row confirmed and sent no UPDATE
C23_Witness ==
    /\ last.op = "confirm"
    /\ last.status = 200
    /\ last.body = "already confirmed"
    /\ last.token = "t2"
    /\ subscriptions[last.email].confirmed
    /\ operations # << >>
    /\ \A i \in DOMAIN operations : operations[i].kind # "UPDATE"

\* request r is a Subscribe whose write statement runs in this step
subscribeWrites(r) ==
    /\ inflight[r].op = "subscribe"
    /\ inflight[r].pc = "write"
    /\ inflight'[r].pc = "done"

\* both requests are Subscribes for one email that returned, and both looked
\* it up before either wrote
bothSubscribed ==
    /\ \A r \in Requests : inflight[r].op = "subscribe" /\ inflight[r].pc = "done"
    /\ inflight[1].email = inflight[2].email
    /\ inflight[1].existing = inflight[2].existing

\* C24: nothing coordinates two Subscribes for one email that interleave
\* their store operations: a Subscribe that found a row at its lookup writes
\* its token and timestamps over whatever the row has become since, answers
\* 202 and emails its token; so an execution exists in which both looked up
\* before either wrote and two different tokens are emailed for the email,
\* the write of the first overwritten by the second.
C24_SubscribeRaceUnguarded ==
    [][ \A r \in Requests :
          (subscribeWrites(r) /\ inflight[r].existing.found)
          => /\ inflight'[r].status = 202
             /\ subscriptions'[inflight[r].email].confirmation_token = inflight[r].token
             /\ subscriptions'[inflight[r].email].token_created_at = inflight[r].now
             /\ Len(inflight'[r].sent) = 1
             /\ inflight'[r].sent[1].link.token = inflight[r].token
      ]_vars

\* both Subscribes read the same pending row, both answered 202 and the two
\* emails carry different tokens, of which the store keeps one
C24_Witness ==
    /\ bothSubscribed
    /\ inflight[1].existing.found
    /\ \A r \in Requests : inflight[r].status = 202
    /\ inflight[1].sent[1].link.token # inflight[2].sent[1].link.token
    /\ subscriptions[inflight[1].email].confirmation_token
         \in {inflight[1].token, inflight[2].token}

\* C26: a confirmed row has a null token also when a Subscribe and a Confirm
\* for one email interleave their store operations: a Subscribe that read the
\* row as pending and writes after the Confirm has completed does not leave a
\* confirmed row with a token.
C26_ConfirmedHasNoTokenInRace ==
    \A e \in DOMAIN subscriptions :
        subscriptions[e].confirmation_token # NULL => ~subscriptions[e].confirmed

\* C27: the store holds at most one subscription row per normalized email,
\* also with interleaved handlers: every row is keyed by a normalized email,
\* and when two Subscribes for one unknown email both pass the lookup, the
\* INSERT that comes second throws, its Subscribe answers 500, hands no email
\* to ctx.waitUntil and leaves the row of the first as it is.
C27_OneRowPerEmail ==
    [][ /\ \A k \in DOMAIN subscriptions' : normalize(k) = k
        /\ \A r \in Requests :
             (subscribeWrites(r) /\ ~inflight[r].existing.found)
             => IF hasSubscription(inflight[r].email)
                THEN /\ inflight'[r].status = 500
                     /\ inflight'[r].sent = << >>
                     /\ subscriptions' = subscriptions
                ELSE /\ inflight'[r].status = 202
                     /\ DOMAIN subscriptions' = DOMAIN subscriptions \cup {inflight[r].email}
      ]_vars

\* both Subscribes found no row; one inserted and answered 202, the other
\* answered 500 and sent nothing
C27_Witness ==
    /\ bothSubscribed
    /\ ~inflight[1].existing.found
    /\ inflight[1].status = 202
    /\ inflight[2].status = 500
    /\ inflight[2].sent = << >>
    /\ inflight[1].token # inflight[2].token
    /\ subscriptions[inflight[1].email].confirmation_token = inflight[1].token

\* the provider is called in this step for the email in ctx.waitUntil
attempted ==
    /\ waitUntil # << >>
    /\ waitUntil' # << >>
    /\ waitUntil'[1].attempts > waitUntil[1].attempts

\* C25: every Subscribe that answers 202 hands exactly one send to
\* ctx.waitUntil and every other Subscribe (200, 400, 405, 500) hands none; a
\* send is attempted once and never again, also after it failed, so there are
\* never more send attempts than 202 responses.
C25_OneSendPer202 ==
    [][ /\ attempted
           => /\ waitUntil[1].attempts = 0
              /\ waitUntil'[1].attempts = 1
              /\ last' = last
              /\ last.op = "subscribe"
              /\ last.status = 202
        /\ (~attempted /\ last'.op = "subscribe")
           => IF last'.status = 202
              THEN /\ Len(waitUntil') = 1
                   /\ waitUntil'[1].attempts = 0
                   /\ waitUntil'[1].to = last'.email
              ELSE /\ last'.status \in {200, 400, 405, 500}
                   /\ waitUntil' = << >>
      ]_vars

\* a Subscribe whose UPDATE threw: 500, the row still pending, no email
C25_Witness ==
    /\ last.op = "subscribe"
    /\ last.status = 500
    /\ waitUntil = << >>
    /\ isPending(last.email)
    /\ operations # << >>
    /\ operations[Len(operations)].kind = "UPDATE"
    /\ operations[Len(operations)].threw

\* the row of the email is pending with a token, the one its emails carry
hasLiveToken(email) ==
    /\ isPending(email)
    /\ subscriptions[email].confirmation_token # NULL

\* C28: from an empty store, with requests run to completion, every token
\* dispatched in a confirmation email for an email is the token stored for it
\* from the dispatch until the email is confirmed: the link of every email
\* carries the stored token and an address that decodes to the row's key, no
\* request (Subscribe, Check, Profile, a failed Confirm) changes the token of
\* a pending row, and Confirm with the stored token succeeds.
C28_EmailedLinkStaysValid ==
    [][ /\ (last'.op = "subscribe" /\ last'.status = 202)
           => /\ Len(waitUntil') = 1
              /\ waitUntil'[1].to \in DOMAIN subscriptions'
              /\ ~subscriptions'[waitUntil'[1].to].confirmed
              /\ waitUntil'[1].link.token # NULL
              /\ waitUntil'[1].link.token =
                   subscriptions'[waitUntil'[1].to].confirmation_token
              /\ normalize(decodeParam(waitUntil'[1].link.email)) = waitUntil'[1].to
        /\ \A e \in DOMAIN subscriptions :
             hasLiveToken(e)
             => /\ e \in DOMAIN subscriptions'
                /\ \/ subscriptions'[e].confirmed
                   \/ subscriptions'[e].confirmation_token =
                        subscriptions[e].confirmation_token
        /\ \A e \in DOMAIN subscriptions :
             ( /\ hasLiveToken(e)
               /\ requestStep("confirm", e)
               /\ last'.token = subscriptions[e].confirmation_token )
             => /\ last'.status = 200
                /\ subscriptions'[e].confirmed
      ]_vars

\* a second email for a pending row: it carries the stored token again, not
\* the token randomUUID returned for this request
C28_Witness ==
    /\ last.op = "subscribe"
    /\ last.status = 202
    /\ waitUntil # << >>
    /\ hasLiveToken(waitUntil[1].to)
    /\ waitUntil[1].link.token = subscriptions[waitUntil[1].to].confirmation_token
    /\ waitUntil[1].link.token # last.token
    /\ profiles # << >>

\* C29: handlers change only their own table: a Profile request changes no
\* subscription row; Subscribe, Confirm and Check change no profile row; and
\* a Profile request for an email that has a profile changes only name, bio
\* and updated_at of that row, leaving its id and created_at as they were.
C29_HandlersKeepToTheirTable ==
    [][ /\ last'.op = "profile" => subscriptions' = subscriptions
        /\ last'.op \in {"subscribe", "confirm", "check"} => profiles' = profiles
        /\ ( /\ clock' = clock
             /\ last'.op = "profile"
             /\ last'.status = 200
             /\ hasProfile(last'.email) )
           => /\ DOMAIN profiles' = DOMAIN profiles
              /\ profiles'[last'.email].id = profiles[last'.email].id
              /\ profiles'[last'.email].created_at = profiles[last'.email].created_at
              /\ profiles'[last'.email].updated_at = clock
              /\ \A k \in DOMAIN profiles \ {last'.email} : profiles'[k] = profiles[k]
      ]_vars

\* a profile saved again, later than it was created, under the name m
C29_Witness ==
    /\ last.op = "profile"
    /\ last.status = 200
    /\ hasProfile(last.email)
    /\ profiles[last.email].created_at < profiles[last.email].updated_at
    /\ profiles[last.email].name = <<"m">>
    /\ profiles[last.email].id = 1

\* the row of the email is pending and holds no token
hasNoToken(email) ==
    /\ isPending(email)
    /\ subscriptions[email].confirmation_token = NULL

\* C30: a pending row whose stored token is null cannot be confirmed by any
\* token: every Confirm on it answers the error page and leaves it as it is,
\* and so does every other request, until a Subscribe for its email stores
\* the token randomUUID returned, which is not null, and emails it.
C30_NullTokenRowNeedsSubscribe ==
    [][ \A e \in DOMAIN subscriptions :
          hasNoToken(e)
          => /\ requestStep("confirm", e)
                => /\ last'.status = 400
                   /\ last'.body = "link no longer valid"
             /\ requestStep("subscribe", e)
                => /\ last'.status = 202
                   /\ ~subscriptions'[e].confirmed
                   /\ subscriptions'[e].confirmation_token = last'.token
                   /\ subscriptions'[e].confirmation_token # NULL
                   /\ Len(waitUntil') = 1
                   /\ waitUntil'[1].to = e
                   /\ waitUntil'[1].link.token = last'.token
             /\ ~requestStep("subscribe", e)
                => /\ e \in DOMAIN subscriptions'
                   /\ subscriptions'[e] = subscriptions[e]
      ]_vars

\* a Confirm with a token on the legacy row, later than the row was created:
\* the error page, the row still pending without a token
C30_Witness ==
    /\ last.op = "confirm"
    /\ last.status = 400
    /\ last.body = "link no longer valid"
    /\ last.token \in Tokens
    /\ hasNoToken(last.email)
    /\ clock > 0

====
